---- MODULE Spec2Model ----
(***************************************************************************)
(* Model of the ContextStream PreToolUse hook                               *)
(* (src/src/hooks/contextstream-redirect.py): one invocation of main()      *)
(* reads one tool-call record from standard input, consults the file        *)
(* system, the indexed-projects store and the ignore file, and exits with   *)
(* status 0 (allow), 2 (block, message on stderr) or 1 (uncaught            *)
(* exception, traceback on stderr).                                         *)
(*                                                                          *)
(* Python strings are modelled as sequences of one-character strings, so    *)
(* that lower(), rstrip(), split(), replace(), startswith(), "in" and       *)
(* fnmatch are computed character by character as the interpreter does.     *)
(***************************************************************************)
EXTENDS Integers, Sequences, FiniteSets, TLC

-----------------------------------------------------------------------------
(* Python str primitives *)

UpperChars ==
  <<"A", "B", "C", "D", "E", "F", "G", "H", "I", "J", "K", "L", "M",
    "N", "O", "P", "Q", "R", "S", "T", "U", "V", "W", "X", "Y", "Z">>

LowerChars ==
  <<"a", "b", "c", "d", "e", "f", "g", "h", "i", "j", "k", "l", "m",
    "n", "o", "p", "q", "r", "s", "t", "u", "v", "w", "x", "y", "z">>

\* str.lower() on one character (ASCII)
LowerChar(c) ==
  IF \E i \in 1..26 : UpperChars[i] = c
  THEN LowerChars[CHOOSE i \in 1..26 : UpperChars[i] = c]
  ELSE c

\* str.lower()
Lower(s) == [i \in 1..Len(s) |-> LowerChar(s[i])]

\* str.startswith(p)
StartsWith(s, p) == Len(p) <= Len(s) /\ SubSeq(s, 1, Len(p)) = p

\* str.endswith(p)
EndsWith(s, p) == Len(p) <= Len(s) /\ SubSeq(s, Len(s) - Len(p) + 1, Len(s)) = p

\* sub in s   (substring test of Python's "in" on two strings)
Contains(s, sub) ==
  \E i \in 1..(Len(s) - Len(sub) + 1) : SubSeq(s, i, i + Len(sub) - 1) = sub

\* x in seq   (membership test of Python's "in" on a list)
InList(x, seq) == \E i \in 1..Len(seq) : seq[i] = x

\* str.rstrip(chars): drop trailing characters that are in chars
RECURSIVE RStrip(_, _)
RStrip(s, chars) ==
  IF s = <<>> \/ s[Len(s)] \notin chars
  THEN s
  ELSE RStrip(SubSeq(s, 1, Len(s) - 1), chars)

\* str.lstrip(chars)
RECURSIVE LStrip(_, _)
LStrip(s, chars) ==
  IF s = <<>> \/ s[1] \notin chars
  THEN s
  ELSE LStrip(Tail(s), chars)

Whitespace == {" ", "\t"}

\* str.strip()
Strip(s) == LStrip(RStrip(s, Whitespace), Whitespace)

\* index of the first occurrence of character c in s, 0 if none
FirstIndex(s, c) ==
  IF \E i \in 1..Len(s) : s[i] = c
  THEN CHOOSE i \in 1..Len(s) : s[i] = c /\ \A j \in 1..(i - 1) : s[j] # c
  ELSE 0

\* index of the last occurrence of character c in s, 0 if none
LastIndex(s, c) ==
  IF \E i \in 1..Len(s) : s[i] = c
  THEN CHOOSE i \in 1..Len(s) : s[i] = c /\ \A j \in (i + 1)..Len(s) : s[j] # c
  ELSE 0

\* str.split(c) for a one-character separator
RECURSIVE Split(_, _)
Split(s, c) ==
  LET i == FirstIndex(s, c)
  IN  IF i = 0
      THEN <<s>>
      ELSE <<SubSeq(s, 1, i - 1)>> \o Split(SubSeq(s, i + 1, Len(s)), c)

\* sep.join(parts)
RECURSIVE Join(_, _)
Join(parts, sep) ==
  IF parts = <<>> THEN <<>>
  ELSE IF Len(parts) = 1 THEN parts[1]
  ELSE parts[1] \o sep \o Join(Tail(parts), sep)

\* str.replace(old, new), old non-empty, leftmost non-overlapping occurrences
RECURSIVE Replace(_, _, _)
Replace(s, old, new) ==
  IF Len(s) < Len(old) THEN s
  ELSE IF StartsWith(s, old)
       THEN new \o Replace(SubSeq(s, Len(old) + 1, Len(s)), old, new)
       ELSE <<s[1]>> \o Replace(Tail(s), old, new)

\* os.path.basename(p): what follows the last "/"
Basename(p) == SubSeq(p, LastIndex(p, "/") + 1, Len(p))

\* fnmatch.fnmatch(name, pat) on POSIX (normcase is the identity): "*"
\* matches any run of characters, the separator included, "?" matches any
\* one character, every other character matches itself.  Patterns of the
\* model contain no "[" (character classes are not exercised).
RECURSIVE fnmatch(_, _)
fnmatch(name, pat) ==
  IF pat = <<>> THEN name = <<>>
  ELSE IF pat[1] = "*"
       THEN \E k \in 0..Len(name) : fnmatch(SubSeq(name, k + 1, Len(name)), Tail(pat))
       ELSE IF pat[1] = "?"
            THEN name # <<>> /\ fnmatch(Tail(name), Tail(pat))
            ELSE name # <<>> /\ name[1] = pat[1] /\ fnmatch(Tail(name), Tail(pat))

-----------------------------------------------------------------------------
(* Python values: a JSON value or a function result is a record whose t is  *)
(* "missing" (key absent from a dict), "null" (None), "num" (a non-zero     *)
(* number, standing for every truthy non-string) or "str" with its text s.  *)

Missing == [t |-> "missing", s |-> <<>>]
None == [t |-> "null", s |-> <<>>]
Num == [t |-> "num", s |-> <<>>]
Str(x) == [t |-> "str", s |-> x]

\* bool(v)
Truthy(v) == v.t = "num" \/ (v.t = "str" /\ v.s # <<>>)

\* d.get(key, default) on a dict modelled as a record of its known keys
DictGet(d, key, default) == IF d[key].t = "missing" THEN default ELSE d[key]

\* the outcome of a call: a returned value, or an uncaught exception
Ret(v) == [raised |-> FALSE, v |-> v]
Raise == [raised |-> TRUE, v |-> None]

-----------------------------------------------------------------------------
(* String constants of the program and of the modelled file system *)

s_contextstream == <<".", "c", "o", "n", "t", "e", "x", "t", "s", "t", "r", "e", "a", "m">>
s_git == <<".", "g", "i", "t">>
s_ignore == <<"i", "g", "n", "o", "r", "e">>
s_dot == <<".">>
s_dotdot == <<".", ".">>
s_slash == <<"/">>
s_backslash == <<"\\">>
s_star == <<"*">>
s_starstar == <<"*", "*">>
s_true == <<"t", "r", "u", "e">>
s_explore == <<"e", "x", "p", "l", "o", "r", "e">>
s_plan == <<"p", "l", "a", "n">>

-----------------------------------------------------------------------------
(* pathlib: a Path is the sequence of its segments below "/" *)

\* the segments a path string parses to: empty and "." segments are dropped
PathParts(s) == SelectSeq(Split(s, "/"), LAMBDA x : x # <<>> /\ x # s_dot)

\* ".." segments consumed against what precedes them (no symbolic links)
RECURSIVE Normalize(_, _)
Normalize(done, todo) ==
  IF todo = <<>> THEN done
  ELSE IF todo[1] = s_dotdot
       THEN Normalize(IF done = <<>> THEN <<>> ELSE SubSeq(done, 1, Len(done) - 1), Tail(todo))
       ELSE Normalize(Append(done, todo[1]), Tail(todo))

\* Path(s).resolve(): absolute (relative paths start at the working
\* directory wd), normalized
Resolve(s, wd) ==
  Normalize(<<>>, IF StartsWith(s, s_slash) THEN PathParts(s) ELSE wd \o PathParts(s))

\* str(path)
PathStr(parts) == s_slash \o Join(parts, s_slash)

\* path.parent ("/" is its own parent)
Parent(parts) == IF parts = <<>> THEN <<>> ELSE SubSeq(parts, 1, Len(parts) - 1)

\* a is b or an ancestor of b
IsPrefix(a, b) == Len(a) <= Len(b) /\ SubSeq(b, 1, Len(a)) = a

-----------------------------------------------------------------------------
(* The file system the hook runs against.  The tree is fixed; which of its  *)
(* directories carry project markers is the state variable fs.              *)

seg_w == <<"w">>
seg_p == <<"p">>
seg_o == <<"o">>
seg_src == <<"s", "r", "c">>
seg_sub == <<"s", "u", "b">>
seg_node_modules == <<"n", "o", "d", "e", "_", "m", "o", "d", "u", "l", "e", "s">>
seg_main_ts == <<"m", "a", "i", "n", ".", "t", "s">>
seg_a_py == <<"a", ".", "p", "y">>

d_root == <<>>
d_w == <<seg_w>>
d_p == <<seg_w, seg_p>>
d_src == <<seg_w, seg_p, seg_src>>
d_sub == <<seg_w, seg_p, seg_sub>>
d_nm == <<seg_w, seg_p, seg_node_modules>>
d_o == <<seg_o>>
f_main == <<seg_w, seg_p, seg_src, seg_main_ts>>
f_a == <<seg_w, seg_p, seg_sub, seg_a_py>>

TreeDirs == {d_root, d_w, d_p, d_src, d_sub, d_nm, d_o}
TreeFiles == {f_main, f_a}

\* the directories that may carry markers
MarkerDirs == {d_root, d_w, d_p, d_sub}

\* what a directory holds: nothing, a .git entry, a .contextstream
\* directory, both, or a .git entry next to a plain file named
\* .contextstream
MarkerKinds == {"none", "git", "cs", "both", "csfile_git"}

HasCsDir(dir, m) == dir \in MarkerDirs /\ m[dir] \in {"cs", "both"}
HasCsFile(dir, m) == dir \in MarkerDirs /\ m[dir] = "csfile_git"
HasGit(dir, m) == dir \in MarkerDirs /\ m[dir] \in {"git", "both", "csfile_git"}

\* the one ignore override file the tree may hold: /w/p/.contextstream/ignore
f_ignore == d_p \o <<s_contextstream, s_ignore>>

\* Path.is_dir()
is_dir(path, m) ==
  \/ path \in TreeDirs
  \/ /\ path # <<>>
     /\ \/ path[Len(path)] = s_contextstream /\ HasCsDir(Parent(path), m)
        \/ path[Len(path)] = s_git /\ HasGit(Parent(path), m)

\* Path.is_file() of a path other than the ignore override file
is_file(path, m) ==
  \/ path \in TreeFiles
  \/ path # <<>> /\ path[Len(path)] = s_contextstream /\ HasCsFile(Parent(path), m)

\* Path.exists() of a path other than the ignore override file
exists(path, m) == is_dir(path, m) \/ is_file(path, m)

\* Path.exists() of an ignore override file; ig is the state of f_ignore
ignore_file_exists(path, m, ig) ==
  path = f_ignore /\ HasCsDir(d_p, m) /\ ig.kind # "absent"

-----------------------------------------------------------------------------
(* Index Registry Reader *)

\* the value of the "projects" field: a dict (keys: its keys in order), a
\* list of strings (keys: its elements), a string (s), or a scalar
\* (null, number, boolean)
EmptyDict == [t |-> "dict", keys |-> <<>>, s |-> <<>>]

\* read_indexed_projects(): the store st is missing, unreadable (OSError),
\* not UTF-8 (UnicodeDecodeError), not JSON (JSONDecodeError), JSON whose
\* top level is not an object, or an object with or without "projects"
read_indexed_projects(st) ==
  CASE st.kind = "missing" -> [raised |-> FALSE, v |-> EmptyDict]
    [] st.kind = "unreadable" -> [raised |-> FALSE, v |-> EmptyDict]
    [] st.kind = "invalid_json" -> [raised |-> FALSE, v |-> EmptyDict]
    [] st.kind = "bad_encoding" -> [raised |-> TRUE, v |-> EmptyDict]
    [] st.kind = "not_object" -> [raised |-> TRUE, v |-> EmptyDict]
    [] st.kind = "object" ->
         [raised |-> FALSE,
          v |-> IF st.projects.t = "missing" THEN EmptyDict ELSE st.projects]

PathSeparators == {"/", "\\"}

\* is_project_indexed(project_root): b is the returned boolean
is_project_indexed(project_root, st, wd) ==
  IF ~Truthy(project_root) THEN [raised |-> FALSE, b |-> FALSE]
  ELSE
    LET r == read_indexed_projects(st)
        indexed_projects == r.v
        resolved_path == PathStr(Resolve(project_root.s, wd))
        normalized == RStrip(resolved_path, PathSeparators)
    IN  IF r.raised \/ project_root.t # "str" \/ indexed_projects.t = "scalar"
        THEN [raised |-> TRUE, b |-> FALSE]
        ELSE IF indexed_projects.t = "str"
             THEN [raised |-> FALSE,
                   b |-> \/ Contains(indexed_projects.s, resolved_path)
                         \/ \E i \in 1..Len(indexed_projects.s) :
                              RStrip(<<indexed_projects.s[i]>>, PathSeparators) = normalized]
             ELSE [raised |-> FALSE,
                   b |-> \/ InList(resolved_path, indexed_projects.keys)
                         \/ \E i \in 1..Len(indexed_projects.keys) :
                              RStrip(indexed_projects.keys[i], PathSeparators) = normalized]

-----------------------------------------------------------------------------
(* Project Resolver *)

\* the while loop of find_project_root
RECURSIVE find_project_root_walk(_, _)
find_project_root_walk(current, m) ==
  IF current = Parent(current) THEN None
  ELSE IF is_dir(current \o <<s_contextstream>>, m) THEN Str(PathStr(current))
  ELSE IF exists(current \o <<s_git>>, m) THEN Str(PathStr(current))
  ELSE find_project_root_walk(Parent(current), m)

\* find_project_root that starts at the parent of every start path, as if
\* each were a file
find_project_root_from_parent(start_path, wd, m) ==
  IF start_path.t # "str" THEN Raise
  ELSE Ret(find_project_root_walk(Parent(Resolve(start_path.s, wd)), m))

\* find_project_root(start_path)
find_project_root(start_path, wd, m) ==
  IF start_path.t # "str" THEN Raise
  ELSE
    LET current == Resolve(start_path.s, wd)
    IN  Ret(find_project_root_walk(
              IF is_file(current, m) THEN Parent(current) ELSE current, m))

-----------------------------------------------------------------------------
(* Ignore-Set Loader and Pattern Matcher *)

DEFAULT_IGNORE_PATTERNS ==
  << <<".", "g", "i", "t", "/">>, <<".", "s", "v", "n", "/">>, <<".", "h", "g", "/">>,
     <<"n", "o", "d", "e", "_", "m", "o", "d", "u", "l", "e", "s", "/">>, <<"v", "e", "n", "d", "o", "r", "/">>, <<".", "p", "n", "p", "m", "/">>,
     <<"t", "a", "r", "g", "e", "t", "/">>, <<"d", "i", "s", "t", "/">>, <<"b", "u", "i", "l", "d", "/">>, <<"o", "u", "t", "/">>, <<".", "n", "e", "x", "t", "/">>, <<".", "n", "u", "x", "t", "/">>,
     <<"_", "_", "p", "y", "c", "a", "c", "h", "e", "_", "_", "/">>, <<".", "p", "y", "t", "e", "s", "t", "_", "c", "a", "c", "h", "e", "/">>, <<".", "m", "y", "p", "y", "_", "c", "a", "c", "h", "e", "/">>,
     <<"v", "e", "n", "v", "/">>, <<".", "v", "e", "n", "v", "/">>, <<"e", "n", "v", "/">>, <<".", "e", "n", "v", "/">>,
     <<".", "i", "d", "e", "a", "/">>, <<".", "v", "s", "c", "o", "d", "e", "/">>, <<".", "v", "s", "/">>,
     <<"c", "o", "v", "e", "r", "a", "g", "e", "/">>, <<".", "c", "o", "v", "e", "r", "a", "g", "e", "/">>,
     <<"p", "a", "c", "k", "a", "g", "e", "-", "l", "o", "c", "k", ".", "j", "s", "o", "n">>, <<"y", "a", "r", "n", ".", "l", "o", "c", "k">>, <<"p", "n", "p", "m", "-", "l", "o", "c", "k", ".", "y", "a", "m", "l">>, <<"C", "a", "r", "g", "o", ".", "l", "o", "c", "k">>,
     <<"p", "o", "e", "t", "r", "y", ".", "l", "o", "c", "k">>, <<"G", "e", "m", "f", "i", "l", "e", ".", "l", "o", "c", "k">>, <<"c", "o", "m", "p", "o", "s", "e", "r", ".", "l", "o", "c", "k">>,
     <<".", "D", "S", "_", "S", "t", "o", "r", "e">>, <<"T", "h", "u", "m", "b", "s", ".", "d", "b">> >>

\* the lines of the override file kept by the loop of load_ignore_patterns
RECURSIVE KeptLines(_)
KeptLines(lines) ==
  IF lines = <<>> THEN <<>>
  ELSE LET line == Strip(lines[1])
       IN  (IF line # <<>> /\ ~StartsWith(line, <<"#">>) THEN <<line>> ELSE <<>>)
           \o KeptLines(Tail(lines))

\* load_ignore_patterns(project_root)
load_ignore_patterns(project_root, m, ig) ==
  LET ignore_file == PathParts(project_root) \o <<s_contextstream, s_ignore>>
  IN  IF ignore_file_exists(ignore_file, m, ig) /\ ig.kind = "text"
      THEN DEFAULT_IGNORE_PATTERNS \o KeptLines(ig.lines)
      ELSE DEFAULT_IGNORE_PATTERNS

\* one iteration of the loop of is_path_ignored without the basename test
PatternMatches_without_basename(path_str, raw_pattern) ==
  LET pattern == Replace(raw_pattern, s_backslash, s_slash)
  IN  IF EndsWith(pattern, s_slash)
      THEN LET dir_pattern == RStrip(pattern, {"/"})
               parts == Split(path_str, "/")
           IN  \/ InList(dir_pattern, parts)
               \/ StartsWith(path_str, dir_pattern \o s_slash)
      ELSE \/ fnmatch(path_str, pattern)
           \/ /\ Contains(pattern, s_starstar)
              /\ fnmatch(path_str, Replace(pattern, s_starstar, s_star))

\* one iteration of the loop of is_path_ignored
PatternMatches(path_str, raw_pattern) ==
  LET pattern == Replace(raw_pattern, s_backslash, s_slash)
  IN  IF EndsWith(pattern, s_slash)
      THEN LET dir_pattern == RStrip(pattern, {"/"})
               parts == Split(path_str, "/")
           IN  \/ InList(dir_pattern, parts)
               \/ StartsWith(path_str, dir_pattern \o s_slash)
      ELSE \/ fnmatch(path_str, pattern)
           \/ fnmatch(Basename(path_str), pattern)
           \/ /\ Contains(pattern, s_starstar)
              /\ fnmatch(path_str, Replace(pattern, s_starstar, s_star))

\* the candidate string of is_path_ignored: the path relative to the
\* project root, or the raw path when it is not under the root
RelativePathStr(path, project_root, wd) ==
  LET abs_path == Resolve(path, wd)
      root == PathParts(project_root)
  IN  IF IsPrefix(root, abs_path)
      THEN (IF Len(abs_path) = Len(root)
            THEN s_dot
            ELSE Join(SubSeq(abs_path, Len(root) + 1, Len(abs_path)), s_slash))
      ELSE path

\* is_path_ignored(path, patterns, project_root)
is_path_ignored(path, patterns, project_root, wd) ==
  LET path_str == Replace(RelativePathStr(path, project_root, wd), s_backslash, s_slash)
  IN  \E i \in 1..Len(patterns) : PatternMatches(path_str, patterns[i])

-----------------------------------------------------------------------------
(* Discovery Classifier *)

DISCOVERY_GLOB_PATTERNS ==
  << <<"*", "*", "/", "*">>, <<"*", "*", "/">>, <<"s", "r", "c", "/", "*", "*">>, <<"l", "i", "b", "/", "*", "*">>, <<"a", "p", "p", "/", "*", "*">>, <<"c", "o", "m", "p", "o", "n", "e", "n", "t", "s", "/", "*", "*">>,
     <<"p", "a", "g", "e", "s", "/", "*", "*">>, <<"a", "p", "i", "/", "*", "*">>, <<"s", "e", "r", "v", "i", "c", "e", "s", "/", "*", "*">>, <<"u", "t", "i", "l", "s", "/", "*", "*">>, <<"h", "e", "l", "p", "e", "r", "s", "/", "*", "*">>,
     <<"h", "o", "o", "k", "s", "/", "*", "*">>, <<"t", "y", "p", "e", "s", "/", "*", "*">>, <<"m", "o", "d", "e", "l", "s", "/", "*", "*">>, <<"c", "o", "n", "t", "r", "o", "l", "l", "e", "r", "s", "/", "*", "*">>, <<"r", "o", "u", "t", "e", "s", "/", "*", "*">>,
     <<"t", "e", "s", "t", "s", "/", "*", "*">>, <<"_", "_", "t", "e", "s", "t", "s", "_", "_", "/", "*", "*">>, <<"s", "p", "e", "c", "/", "*", "*">> >>

\* is_discovery_glob without its last test, "*/" in pattern
is_discovery_glob_without_dir_wildcard(pattern) ==
  LET pattern_lower == Lower(pattern)
  IN  \/ \E i \in 1..Len(DISCOVERY_GLOB_PATTERNS) :
           Contains(pattern_lower, DISCOVERY_GLOB_PATTERNS[i])
      \/ StartsWith(pattern_lower, <<"*", "*", "/", "*", ".">>)
      \/ StartsWith(pattern_lower, <<"*", "*", "/">>)
      \/ Contains(pattern, s_starstar)

\* is_discovery_glob(pattern) on a string
is_discovery_glob(pattern) ==
  LET pattern_lower == Lower(pattern)
  IN  \/ \E i \in 1..Len(DISCOVERY_GLOB_PATTERNS) :
           Contains(pattern_lower, DISCOVERY_GLOB_PATTERNS[i])
      \/ StartsWith(pattern_lower, <<"*", "*", "/", "*", ".">>)
      \/ StartsWith(pattern_lower, <<"*", "*", "/">>)
      \/ Contains(pattern, s_starstar)
      \/ Contains(pattern, <<"*", "/">>)

GREP_BROAD_PATHS == << s_dot, <<".", "/">>, s_star, s_starstar >>

\* is_discovery_grep without its test for the search-everywhere tokens
is_discovery_grep_without_tokens(pattern, file_path) ==
  IF ~Truthy(file_path) THEN [raised |-> FALSE, b |-> TRUE]
  ELSE IF file_path.t # "str" THEN [raised |-> TRUE, b |-> FALSE]
  ELSE [raised |-> FALSE,
        b |-> \/ Contains(file_path.s, s_star)
              \/ Contains(file_path.s, s_starstar)]

\* is_discovery_grep(pattern, file_path): file_path is a Python value
is_discovery_grep(pattern, file_path) ==
  IF ~Truthy(file_path) THEN [raised |-> FALSE, b |-> TRUE]
  ELSE IF file_path.t # "str" THEN [raised |-> TRUE, b |-> FALSE]
  ELSE [raised |-> FALSE,
        b |-> \/ InList(file_path.s, GREP_BROAD_PATHS)
              \/ Contains(file_path.s, s_star)
              \/ Contains(file_path.s, s_starstar)]

known_files ==
  << <<"p", "a", "c", "k", "a", "g", "e", ".", "j", "s", "o", "n">>, <<"t", "s", "c", "o", "n", "f", "i", "g", ".", "j", "s", "o", "n">>, <<"p", "y", "p", "r", "o", "j", "e", "c", "t", ".", "t", "o", "m", "l">>, <<"C", "a", "r", "g", "o", ".", "t", "o", "m", "l">>,
     <<"g", "o", ".", "m", "o", "d">>, <<"p", "o", "m", ".", "x", "m", "l">>, <<"b", "u", "i", "l", "d", ".", "g", "r", "a", "d", "l", "e">>, <<"r", "e", "q", "u", "i", "r", "e", "m", "e", "n", "t", "s", ".", "t", "x", "t">>,
     <<".", "e", "n", "v">>, <<".", "e", "n", "v", ".", "l", "o", "c", "a", "l">>, <<".", "e", "n", "v", ".", "e", "x", "a", "m", "p", "l", "e">>,
     <<"R", "E", "A", "D", "M", "E", ".", "m", "d">>, <<"C", "L", "A", "U", "D", "E", ".", "m", "d">>, <<"A", "G", "E", "N", "T", "S", ".", "m", "d">>,
     <<"d", "o", "c", "k", "e", "r", "-", "c", "o", "m", "p", "o", "s", "e", ".", "y", "m", "l">>, <<"D", "o", "c", "k", "e", "r", "f", "i", "l", "e">>,
     <<".", "g", "i", "t", "i", "g", "n", "o", "r", "e">>, <<".", "e", "s", "l", "i", "n", "t", "r", "c">>, <<".", "p", "r", "e", "t", "t", "i", "e", "r", "r", "c">> >>

\* is_discovery_read(file_path) on a string: every branch after the first
\* returns False
is_discovery_read(file_path) ==
  IF file_path = <<>> THEN TRUE
  ELSE IF \E i \in 1..Len(known_files) :
            Lower(Basename(file_path)) = Lower(known_files[i]) THEN FALSE
  ELSE IF Contains(file_path, <<":">>) THEN FALSE
  ELSE IF /\ StartsWith(file_path, s_slash)
          /\ ~(Contains(file_path, s_star) \/ Contains(file_path, <<"?">>)) THEN FALSE
  ELSE FALSE

\* get_target_path with os.getcwd() as the default of Read as well
get_target_path_read_in_cwd(name, input, wd) ==
  IF name \in {"Glob", "Grep", "Read"}
  THEN (IF input.t # "dict" THEN Raise
        ELSE Ret(DictGet(input, IF name = "Read" THEN "file_path" ELSE "path",
                         Str(PathStr(wd)))))
  ELSE Ret(None)

\* get_target_path(tool_name, tool_input); a tool_input that is not a dict
\* has no get()
get_target_path(name, input, wd) ==
  IF name \in {"Glob", "Grep"}
  THEN (IF input.t # "dict" THEN Raise
        ELSE Ret(DictGet(input, "path", Str(PathStr(wd)))))
  ELSE IF name = "Read"
  THEN (IF input.t # "dict" THEN Raise
        ELSE Ret(DictGet(input, "file_path", Str(<<>>))))
  ELSE Ret(None)

-----------------------------------------------------------------------------
(* What the hook writes to stderr: nothing, a redirect message naming the   *)
(* call to use instead (with the mode and the query the message embeds),    *)
(* or the traceback of an uncaught exception.                               *)

NoMessage ==
  [kind |-> "none", call |-> "", mode |-> "", query |-> None, instead_of |-> ""]

\* a block that prints nothing before sys.exit(2)
SearchRedirect_unprinted(mode, query, instead_of) == NoMessage

SearchRedirect(mode, query, instead_of) ==
  [kind |-> "redirect", call |-> "mcp__contextstream__search",
   mode |-> mode, query |-> query, instead_of |-> instead_of]

PlanRedirect(instead_of) ==
  [kind |-> "redirect", call |-> "mcp__contextstream__session",
   mode |-> "capture_plan", query |-> None, instead_of |-> instead_of]

Traceback ==
  [kind |-> "traceback", call |-> "", mode |-> "", query |-> None, instead_of |-> ""]

\* "..." placeholder of the Task message
s_ellipsis == <<".", ".", ".">>

\* os.environ.get("CONTEXTSTREAM_HOOK_ENABLED", "true").lower() == "true"
BLOCKING_ENABLED(environ) == Lower(DictGet(environ, "CONTEXTSTREAM_HOOK_ENABLED", Str(s_true)).s) = s_true

-----------------------------------------------------------------------------
(* Bounds of the model *)

\* the longest run of trailing "/" on a registry key
MaxTrail == 1

\* the largest number of keys of a well-formed registry
MaxKeys == 1

-----------------------------------------------------------------------------
(* The inputs of one invocation *)

\* os.environ: CONTEXTSTREAM_HOOK_ENABLED unset, "TRUE" or "false"
Environs ==
  { [CONTEXTSTREAM_HOOK_ENABLED |-> v] : v \in {Missing, Str(<<"T", "R", "U", "E">>), Str(<<"f", "a", "l", "s", "e">>)} }

\* os.getcwd()
WorkingDirs == {d_src, d_o}

\* the marker layouts of the tree
FileSystems ==
  { m \in [MarkerDirs -> MarkerKinds] :
      /\ m[d_root] \in {"none", "both"}
      /\ m[d_w] \in {"none", "git"}
      /\ m[d_sub] \in {"none", "git"} }

\* tool_input values: a dict with the keys the hook reads, a value that is
\* not a dict (null, list, string, number), or no tool_input key at all
EmptyInput ==
  [t |-> "dict", path |-> Missing, file_path |-> Missing,
   pattern |-> Missing, subagent_type |-> Missing]

NonDictInput == [EmptyInput EXCEPT !.t = "nondict"]
MissingInput == [EmptyInput EXCEPT !.t = "missing"]

\* "path" / "file_path" values
PathTexts ==
  { <<>>, s_dot, <<".", "/">>, s_star, s_starstar, <<"s", "r", "c">>, <<"/", "o">>,
    PathStr(d_p), PathStr(d_sub), PathStr(d_nm), PathStr(f_main), PathStr(f_a),
    PathStr(d_src) \o <<"/", "m", "a", "i", "n", ".", "t", "s", ":", "4", "2">>, PathStr(d_src) \o <<"/", "*", ".", "t", "s">>,
    PathStr(d_src) \o <<"/", "m", "a", "?", "n", ".", "t", "s">> }

PathValues == {Missing, None, Num} \cup { Str(x) : x \in PathTexts }

GlobPathValues ==
  {Missing, None, Num} \cup
  { Str(x) : x \in {<<"s", "r", "c">>, <<"/", "o">>, PathStr(d_p), PathStr(d_sub), PathStr(d_nm)} }

\* Glob "pattern" values
GlobPatternValues ==
  {Missing, Num} \cup
  { Str(x) : x \in {<<"*", "*", "/", "*", ".", "t", "s">>, <<"*", ".", "t", "s">>, <<"S", "R", "C", "/", "*", "*">>, <<"s", "r", "c", "/", "*", "/", "a", ".", "t", "s">>,
                    <<"n", "o", "d", "e", "_", "m", "o", "d", "u", "l", "e", "s", "/", "*", "*", "/", "*">>, <<"m", "a", "i", "n", ".", "t", "s">>} }

\* Grep "pattern" values
GrepPatternValues == {Missing, Str(<<"T", "O", "D", "O">>)}

\* Task "subagent_type" values
SubagentValues ==
  {Missing, Num} \cup
  { Str(x) : x \in {s_explore, <<"E", "x", "p", "l", "o", "r", "e">>, s_plan, <<"P", "L", "A", "N">>, <<"g", "e", "n", "e", "r", "a", "l", "-", "p", "u", "r", "p", "o", "s", "e">>} }

\* tool_name values: the names main() tests for, another string, a value
\* that is not a string, and no tool_name key at all
ToolNames ==
  {"Glob", "Grep", "Read", "Search", "Task", "EnterPlanMode", "Bash",
   "<non-string>", "<missing>"}

\* the (path, pattern) pairs of the Glob and Grep calls: every path with
\* the usual pattern, and every pattern with no path and with the usual path
GlobPairs ==
  { pq \in GlobPathValues \X GlobPatternValues :
      \/ pq[1] \in {Missing, Str(PathStr(d_p))}
      \/ pq[2] \in {Missing, Str(<<"*", "*", "/", "*", ".", "t", "s">>)} }

GrepPairs ==
  { pq \in PathValues \X GrepPatternValues :
      \/ pq[1] \in {Missing, Str(PathStr(f_main))}
      \/ pq[2] # Missing }

ToolInputsOf(name) ==
  {NonDictInput, MissingInput} \cup
  CASE name = "Glob" ->
         { [EmptyInput EXCEPT !.path = pq[1], !.pattern = pq[2]] : pq \in GlobPairs }
    [] name = "Grep" ->
         { [EmptyInput EXCEPT !.path = pq[1], !.pattern = pq[2]] : pq \in GrepPairs }
    [] name = "Read" ->
         { [EmptyInput EXCEPT !.file_path = p] : p \in PathValues }
    [] name = "Task" ->
         { [EmptyInput EXCEPT !.subagent_type = a] : a \in SubagentValues }
    [] OTHER -> {EmptyInput}

\* what json.load(sys.stdin) meets: text that is not JSON, JSON whose top
\* level is not an object, or an object
Unread == [kind |-> "unread", tool_name |-> "", tool_input |-> MissingInput]
Unparsable == [Unread EXCEPT !.kind = "unparsable"]
NonObject == [Unread EXCEPT !.kind = "nonobject"]

Stdins ==
  {Unparsable, NonObject} \cup
  UNION { { [kind |-> "object", tool_name |-> n, tool_input |-> ti] :
              ti \in ToolInputsOf(n) } : n \in ToolNames }

\* the strings of 0..n characters "/"
RECURSIVE Slashes(_)
Slashes(n) == IF n = 0 THEN <<>> ELSE s_slash \o Slashes(n - 1)

\* registry keys: the root /w/p, bare or followed by separators, and /w
RegistryKeys ==
  { PathStr(d_p) \o t : t \in { Slashes(n) : n \in 0..MaxTrail } \cup {s_backslash} }
  \cup {PathStr(d_w)}

\* a set of strings as a sequence
RECURSIVE SetToSeq(_)
SetToSeq(S) ==
  IF S = {} THEN <<>>
  ELSE LET x == CHOOSE y \in S : TRUE IN <<x>> \o SetToSeq(S \ {x})

\* values of the "projects" field
ProjectsValues ==
  { [t |-> "dict", keys |-> SetToSeq(K), s |-> <<>>] :
      K \in { X \in SUBSET RegistryKeys : Cardinality(X) <= MaxKeys } }
  \cup
  { [t |-> "missing", keys |-> <<>>, s |-> <<>>],
    [t |-> "scalar", keys |-> <<>>, s |-> <<>>],
    [t |-> "list", keys |-> <<PathStr(d_p)>>, s |-> <<>>],
    [t |-> "str", keys |-> <<>>, s |-> PathStr(d_src)] }

\* states of ~/.contextstream/indexed-projects.json
StoreUnread == [kind |-> "unread", projects |-> EmptyDict]

Stores ==
  { [kind |-> k, projects |-> EmptyDict] :
      k \in {"missing", "unreadable", "bad_encoding", "invalid_json", "not_object"} }
  \cup
  { [kind |-> "object", projects |-> p] : p \in ProjectsValues }

\* states of /w/p/.contextstream/ignore: absent, present but unreadable,
\* or its lines
IgnoreUnread == [kind |-> "unread", lines |-> <<>>]
IgnoreAbsent == [kind |-> "absent", lines |-> <<>>]

IgnoreFiles(m) ==
  {IgnoreAbsent} \cup
  IF HasCsDir(d_p, m)
  THEN { [kind |-> "unreadable", lines |-> <<>>],
         [kind |-> "text",
          lines |-> << <<"#", " ", "l", "o", "c", "a", "l", " ", "o", "v", "e", "r", "r", "i", "d", "e", "s">>, <<>>, <<" ", " ", "s", "u", "b", "/", " ", " ">>, <<"*", ".", "p", "y">>,
                       <<"s", "r", "c", "/", "*", "*", "/", "*", ".", "t", "s">> >>],
         [kind |-> "text",
          lines |-> << <<"s", "*", ".", "t", "s">>, <<"a", ".", "p", "y">>, <<"s", "r", "c", "?", "m", "a", "i", "n", ".", "t", "s">> >>] }
  ELSE {}

-----------------------------------------------------------------------------
(* One invocation of main() *)

VARIABLES
  environ,       \* the process environment
  cwd,           \* the working directory
  fs,            \* the marker layout of the file system
  stdin,         \* what main() read from standard input
  store,         \* what read_indexed_projects() found
  ignore_file,   \* what load_ignore_patterns() found
  pc,            \* the position of main()
  tool_name,     \* locals of main()
  tool_input,
  target_path,
  project_root,
  exit_code,     \* the exit status, -1 while running
  exit_line,     \* the line of main() that ended the process, 0 while running
  stderr         \* what was written to stderr

vars ==
  <<environ, cwd, fs, stdin, store, ignore_file, pc, tool_name, tool_input,
    target_path, project_root, exit_code, exit_line, stderr>>

inputs == <<environ, cwd, fs>>
locals == <<tool_name, tool_input, target_path, project_root>>

Init ==
  /\ environ \in Environs
  /\ cwd \in WorkingDirs
  /\ fs \in FileSystems
  /\ stdin = Unread
  /\ store = StoreUnread
  /\ ignore_file = IgnoreUnread
  /\ pc = "start"
  /\ tool_name = ""
  /\ tool_input = EmptyInput
  /\ target_path = None
  /\ project_root = None
  /\ exit_code = -1
  /\ exit_line = 0
  /\ stderr = NoMessage

\* sys.exit(code) at line ln after writing msg to stderr
Exit(ln, code, msg) ==
  /\ pc' = "done"
  /\ exit_code' = code
  /\ exit_line' = ln
  /\ stderr' = msg

\* an exception raised under line ln and caught nowhere: the interpreter
\* prints the traceback and exits with status 1
Crash(ln) == Exit(ln, 1, Traceback)

\* main() goes on to the next stage
Goto(stage) == pc' = stage /\ UNCHANGED <<exit_code, exit_line, stderr>>

\* lines 326-327
CheckEnabled ==
  /\ pc = "start"
  /\ IF ~BLOCKING_ENABLED(environ)
     THEN Exit(327, 0, NoMessage)
     ELSE Goto("read_input")
  /\ UNCHANGED <<inputs, stdin, store, ignore_file, locals>>

\* lines 329-335
ReadInput ==
  /\ pc = "read_input"
  /\ \E input_data \in Stdins :
       /\ stdin' = input_data
       /\ CASE input_data.kind = "unparsable" ->
                 Exit(332, 0, NoMessage) /\ UNCHANGED <<tool_name, tool_input>>
            [] input_data.kind = "nonobject" ->
                 Crash(334) /\ UNCHANGED <<tool_name, tool_input>>
            [] OTHER ->
                 /\ tool_name' = IF input_data.tool_name = "<missing>"
                                 THEN "" ELSE input_data.tool_name
                 /\ tool_input' = IF input_data.tool_input.t = "missing"
                                  THEN EmptyInput ELSE input_data.tool_input
                 /\ Goto("resolve")
  /\ UNCHANGED <<inputs, store, ignore_file, target_path, project_root>>

\* lines 339-344
ResolveProject ==
  /\ pc = "resolve"
  /\ LET t == get_target_path(tool_name, tool_input, cwd)
         r == IF Truthy(t.v) THEN find_project_root(t.v, cwd, fs) ELSE Ret(None)
     IN  IF t.raised
         THEN Crash(339) /\ UNCHANGED <<target_path, project_root>>
         ELSE /\ target_path' = t.v
              /\ IF r.raised
                 THEN Crash(340) /\ UNCHANGED project_root
                 ELSE /\ project_root' = r.v
                      /\ IF ~Truthy(r.v)
                         THEN Exit(344, 0, NoMessage)
                         ELSE Goto("indexed")
  /\ UNCHANGED <<inputs, stdin, store, ignore_file, tool_name, tool_input>>

\* lines 348-349
CheckIndexed ==
  /\ pc = "indexed"
  /\ \E st \in Stores :
       /\ store' = st
       /\ LET r == is_project_indexed(project_root, st, cwd)
          IN  IF r.raised THEN Crash(348)
              ELSE IF ~r.b THEN Exit(349, 0, NoMessage)
              ELSE Goto("ignored")
  /\ UNCHANGED <<inputs, stdin, ignore_file, locals>>

\* lines 353-356
CheckIgnored ==
  /\ pc = "ignored"
  /\ \E ig \in IgnoreFiles(fs) :
       /\ ignore_file' = ig
       /\ LET patterns == load_ignore_patterns(project_root.s, fs, ig)
          IN  IF /\ Truthy(target_path)
                 /\ is_path_ignored(target_path.s, patterns, project_root.s, cwd)
              THEN Exit(356, 0, NoMessage)
              ELSE Goto("handle")
  /\ UNCHANGED <<inputs, stdin, store, locals>>

\* lines 359-420
HandleTool ==
  /\ pc = "handle"
  /\ CASE tool_name = "Glob" ->
            LET pattern == DictGet(tool_input, "pattern", Str(<<>>))
            IN  IF pattern.t # "str" THEN Crash(361)
                ELSE IF is_discovery_glob(pattern.s)
                THEN Exit(368, 2, SearchRedirect("hybrid", pattern, "Glob"))
                ELSE Exit(420, 0, NoMessage)
       [] tool_name = "Grep" ->
            LET pattern == DictGet(tool_input, "pattern", Str(<<>>))
                file_path == DictGet(tool_input, "path", Str(<<>>))
                r == is_discovery_grep(pattern, file_path)
            IN  IF r.raised THEN Crash(373)
                ELSE IF r.b
                THEN Exit(380, 2, SearchRedirect("keyword", pattern, "Grep"))
                ELSE Exit(420, 0, NoMessage)
       [] tool_name = "Search" -> Exit(420, 0, NoMessage)
       [] tool_name = "Task" ->
            LET subagent_type == DictGet(tool_input, "subagent_type", Str(<<>>))
            IN  IF tool_input.t # "dict" \/ subagent_type.t # "str" THEN Crash(388)
                ELSE IF Lower(subagent_type.s) = s_explore
                THEN Exit(396, 2, SearchRedirect("hybrid", Str(s_ellipsis), "Task"))
                ELSE IF Lower(subagent_type.s) = s_plan
                THEN Exit(403, 2, PlanRedirect("Task"))
                ELSE Exit(420, 0, NoMessage)
       [] tool_name = "Read" -> Exit(420, 0, NoMessage)
       [] tool_name = "EnterPlanMode" -> Exit(417, 2, PlanRedirect("EnterPlanMode"))
       [] OTHER -> Exit(420, 0, NoMessage)
  /\ UNCHANGED <<inputs, stdin, store, ignore_file, locals>>

Next ==
  \/ CheckEnabled
  \/ ReadInput
  \/ ResolveProject
  \/ CheckIndexed
  \/ CheckIgnored
  \/ HandleTool

Spec == Init /\ [][Next]_vars

TypeOK ==
  /\ pc \in {"start", "read_input", "resolve", "indexed", "ignored", "handle", "done"}
  /\ exit_code \in {-1, 0, 1, 2}
  /\ (pc = "done") = (exit_code # -1)
  /\ (pc = "done") = (exit_line # 0)

-----------------------------------------------------------------------------
(* Vocabulary of the properties *)

Done == pc = "done"
Allowed == exit_code = 0 /\ stderr = NoMessage
Blocked == exit_code = 2 /\ stderr.kind = "redirect"
Crashed == exit_code = 1

\* main() read a JSON object from standard input
RecordRead == stdin.kind = "object"

\* the record's tool_input is a dict whose field is absent or a string
WellTyped(field) == tool_input.t = "dict" /\ tool_input[field].t \in {"missing", "str"}

\* the text of a field, "" when it is absent
TextOf(field) == DictGet(tool_input, field, Str(<<>>)).s

\* the Project Resolver returned none / returned a root
NoRootFound == Done /\ exit_line = 344
RootFound == pc \in {"indexed", "ignored", "handle"} \/ (Done /\ exit_line >= 348)

\* the Index Registry as the specification defines it: the keys of the
\* "projects" mapping of a well-formed store, nothing for any other store
RegistryOf(st) ==
  IF st.kind = "object" /\ st.projects.t = "dict"
  THEN { st.projects.keys[i] : i \in 1..Len(st.projects.keys) }
  ELSE {}

\* root is a key of the registry, exactly or up to trailing separators
InRegistry(root, st) ==
  \E k \in RegistryOf(st) :
    \/ k = root
    \/ RStrip(k, PathSeparators) = RStrip(root, PathSeparators)

\* the project of the call's target is in the Index Registry
ProjectIndexed ==
  RootFound /\ store.kind # "unread" /\ InRegistry(project_root.s, store)

\* the call's target matches the ignore set of its project
TargetMatchesIgnoreSet ==
  /\ ignore_file.kind # "unread"
  /\ Truthy(target_path)
  /\ is_path_ignored(target_path.s,
                     load_ignore_patterns(project_root.s, fs, ignore_file),
                     project_root.s, cwd)

\* the Classified state: root found, root indexed, target not ignored
Classified ==
  ProjectIndexed /\ ignore_file.kind # "unread" /\ ~TargetMatchesIgnoreSet

-----------------------------------------------------------------------------
(* C1 *)

\* a Task call for the explore or plan sub-agent, or an EnterPlanMode call
NonFilesystemCall ==
  /\ RecordRead
  /\ \/ tool_name = "EnterPlanMode"
     \/ /\ tool_name = "Task"
        /\ WellTyped("subagent_type")
        /\ Lower(TextOf("subagent_type")) \in {s_explore, s_plan}

\* C1: with blocking enabled, every Task call whose subagent_type is
\* "explore" or "plan" in any letter case, and every EnterPlanMode call,
\* ends with exit status 2 and a redirect message, whatever the state of
\* the project root, the registry and the ignore set.
C1_NonFilesystemCallsBlocked ==
  (Done /\ BLOCKING_ENABLED(environ) /\ NonFilesystemCall) => Blocked

-----------------------------------------------------------------------------
(* C2 *)

s_node_modules_glob == <<"n", "o", "d", "e", "_", "m", "o", "d", "u", "l", "e", "s", "/", "*", "*", "/", "*">>

\* C2: in an indexed project a call whose target matches an ignore pattern
\* is allowed even when its parameters classify as discovery; in particular
\* a Glob call with the pattern node_modules/**/* is allowed.
C2_IgnorePrecedence ==
  (Done /\ RecordRead /\ ProjectIndexed) =>
    /\ TargetMatchesIgnoreSet => Allowed
    /\ (tool_name = "Glob" /\ WellTyped("pattern")
          /\ TextOf("pattern") = s_node_modules_glob) => Allowed

-----------------------------------------------------------------------------
(* C3 *)

\* C3: every tool-call record for which the Project Resolver finds no root,
\* or finds a root that is not in the Index Registry, ends with exit status
\* 0 and no message, and ends before the ignore check and the classification.
C3_UnindexedAllow ==
  (Done /\ RecordRead /\
     (NoRootFound \/ (RootFound /\ store.kind # "unread" /\ ~ProjectIndexed))) =>
    Allowed /\ exit_line \in {344, 349}

-----------------------------------------------------------------------------
(* C4 *)

\* C4: whatever standard input holds, main() ends with a verdict and never
\* with an uncaught exception; input that is unparsable, or is not an
\* object, ends with exit status 0 and no message.
C4_FailOpen ==
  Done =>
    /\ exit_line \in {334, 339, 340, 361, 373, 388} => ~Crashed
    /\ stdin.kind \in {"unparsable", "nonobject"} => Allowed

-----------------------------------------------------------------------------
(* C5 *)

\* the discovery signals of a glob pattern: a fixed broad-discovery
\* substring in the case-folded pattern, a leading "**/", or "**" or "*/"
\* anywhere in the pattern
GlobDiscoverySignal(p) ==
  \/ \E i \in 1..Len(DISCOVERY_GLOB_PATTERNS) :
       Contains(Lower(p), DISCOVERY_GLOB_PATTERNS[i])
  \/ StartsWith(Lower(p), <<"*", "*", "/">>)
  \/ Contains(p, s_starstar)
  \/ Contains(p, <<"*", "/">>)

ClassifiedGlob ==
  Done /\ RecordRead /\ tool_name = "Glob" /\ WellTyped("pattern") /\ Classified

\* C5: in the Classified state a Glob call is blocked, with the hybrid-mode
\* search redirect that embeds the literal pattern as its query, exactly
\* when its pattern carries a discovery signal; otherwise it is allowed.
C5_GlobBlockedIffDiscovery ==
  ClassifiedGlob =>
    IF GlobDiscoverySignal(TextOf("pattern"))
    THEN /\ exit_code = 2
         /\ stderr = SearchRedirect("hybrid", Str(TextOf("pattern")), "Glob")
    ELSE Allowed

\* a classified Glob call for "**/*.ts" has been blocked
C5_Witness ==
  /\ ClassifiedGlob
  /\ TextOf("pattern") = <<"*", "*", "/", "*", ".", "t", "s">>
  /\ exit_code = 2
  /\ stderr = SearchRedirect("hybrid", Str(<<"*", "*", "/", "*", ".", "t", "s">>), "Glob")

-----------------------------------------------------------------------------
(* C6 *)

ClassifiedGrep ==
  Done /\ RecordRead /\ tool_name = "Grep" /\ WellTyped("path") /\ Classified

\* a Grep path names no single file: no path, a search-everywhere token,
\* or a character of wildcards in the path
GrepDiscoverySignal(wildcards) ==
  \/ tool_input.path.t = "missing"
  \/ TextOf("path") \in {s_dot, <<".", "/">>, s_star, s_starstar}
  \/ \E i \in 1..Len(TextOf("path")) : TextOf("path")[i] \in wildcards

\* the verdict C6 gives a classified Grep call
GrepVerdict(wildcards) ==
  IF GrepDiscoverySignal(wildcards)
  THEN /\ exit_code = 2
       /\ stderr = SearchRedirect("keyword",
                                  DictGet(tool_input, "pattern", Str(<<>>)), "Grep")
  ELSE Allowed

-----------------------------------------------------------------------------
(* C7 *)

\* C7: every Read call, whatever its file_path (present, empty or
\* missing) and whatever the state of the project root, the registry and
\* the ignore set, ends with exit status 0 and no message.
C7_ReadAlwaysAllowed ==
  (Done /\ RecordRead /\ tool_name = "Read" /\ WellTyped("file_path")) => Allowed

-----------------------------------------------------------------------------
(* C8 *)

\* a store that does not hold a registry: missing, unreadable, not valid
\* JSON text, or JSON without the expected structure
NoRegistryStore(st) ==
  \/ st.kind \in {"missing", "unreadable", "bad_encoding", "invalid_json", "not_object"}
  \/ st.kind = "object" /\ st.projects.t \in {"scalar", "list", "str"}

\* C8: for a store that is missing, unreadable, not valid JSON or not of
\* the expected structure, read_indexed_projects returns the empty mapping
\* and raises nothing, so that no root is indexed and every Glob and Grep
\* call is allowed.
C8_RegistryReaderNeverFails ==
  (store.kind # "unread" /\ NoRegistryStore(store)) =>
    /\ read_indexed_projects(store) = [raised |-> FALSE, v |-> EmptyDict]
    /\ pc \notin {"ignored", "handle"}
    /\ (Done /\ tool_name \in {"Glob", "Grep"}) => Allowed

-----------------------------------------------------------------------------
(* C9 *)

\* C9: is_project_indexed(root) is true exactly when the resolved root is
\* a key of the registry, literally or after trailing separators are
\* stripped from both; a none or empty root yields false whatever the
\* registry holds.
C9_IsIndexedIffRegistryKey ==
  store.kind # "unread" =>
    LET r == is_project_indexed(project_root, store, cwd)
    IN  /\ ~r.raised
        /\ r.b = InRegistry(PathStr(Resolve(project_root.s, cwd)), store)
        /\ is_project_indexed(None, store, cwd) = [raised |-> FALSE, b |-> FALSE]
        /\ is_project_indexed(Str(<<>>), store, cwd) = [raised |-> FALSE, b |-> FALSE]

-----------------------------------------------------------------------------
(* C10 *)

\* dir carries a marker that find_project_root accepts
HasMarker(dir, m) == HasCsDir(dir, m) \/ HasGit(dir, m)

\* find_project_root was called on the target and returned
ResolverReturned ==
  (NoRootFound \/ RootFound) /\ target_path.t = "str" /\ Truthy(target_path)

\* the directory the walk of find_project_root starts at
WalkStart ==
  LET current == Resolve(target_path.s, cwd)
  IN  IF is_file(current, fs) THEN Parent(current) ELSE current

\* a marker-bearing directory strictly below dir, at or above the start
NearerMarker(dir, start) ==
  \E e \in MarkerDirs :
    e # dir /\ IsPrefix(dir, e) /\ IsPrefix(e, start) /\ HasMarker(e, fs)

\* C10 as stated: for every directory D holding both .contextstream and
\* .git, the resolver returns D whether the walk starts at D or at any
\* descendant of D.
C10_BothMarkersAnyDescendant ==
  ResolverReturned =>
    \A dir \in MarkerDirs :
      (fs[dir] = "both" /\ IsPrefix(dir, WalkStart)) =>
        project_root = Str(PathStr(dir))

\* C10 as amended: D is not the file system root, and the walk starts at D
\* or at a descendant of D with no marker-bearing directory between it
\* (included) and D (excluded).
C10_BothMarkersNearest ==
  ResolverReturned =>
    \A dir \in MarkerDirs :
      (fs[dir] = "both" /\ dir # d_root /\ IsPrefix(dir, WalkStart)
         /\ ~NearerMarker(dir, WalkStart)) =>
        project_root = Str(PathStr(dir))

\* the resolver returned /w/p, which holds both markers, for a target
\* below it, although the ancestor /w holds .git
C10_Witness ==
  /\ ResolverReturned
  /\ fs[d_p] = "both" /\ fs[d_w] = "git"
  /\ IsPrefix(d_p, WalkStart) /\ WalkStart # d_p
  /\ project_root = Str(PathStr(d_p))

-----------------------------------------------------------------------------
(* C3, C7 and C9 on the stores that read_indexed_projects loads as a        *)
(* mapping: what remains of them once the failing stores of C8 are set      *)
(* aside.                                                                   *)

\* the store has not been read, or it loads as a mapping
RegistryLoaded ==
  \/ store.kind = "unread"
  \/ LET r == read_indexed_projects(store) IN ~r.raised /\ r.v.t = "dict"

\* C3 holds whenever the store loads as a mapping
UnindexedAllowOnLoadedRegistry == RegistryLoaded => C3_UnindexedAllow

\* C7 holds whenever the store loads as a mapping
ReadAllowedOnLoadedRegistry == RegistryLoaded => C7_ReadAlwaysAllowed

\* C9 holds whenever the store loads as a mapping
IsIndexedIffKeyOnLoadedRegistry == RegistryLoaded => C9_IsIndexedIffRegistryKey
-----------------------------------------------------------------------------
(* C11 *)

\* the message on stderr names the external-search call to use instead
NamesSearchCall ==
  /\ stderr.kind = "redirect"
  /\ stderr.call = "mcp__contextstream__search"
  /\ stderr.instead_of = tool_name

\* C11: in every end state of one invocation, exit status 2 comes with a
\* message on stderr that names the external-search call to use instead,
\* and exit status 0 comes with no message at all.
C11_VerdictWellFormed ==
  Done =>
    /\ exit_code = 2 => NamesSearchCall
    /\ exit_code = 0 => stderr = NoMessage

\* a Grep call without a path has ended with exit status 2 and the
\* keyword-mode search redirect
C11_Witness ==
  /\ Done /\ exit_code = 2 /\ exit_line = 380
  /\ tool_input.path.t = "missing"
  /\ NamesSearchCall /\ stderr.mode = "keyword"
-----------------------------------------------------------------------------
(* C12 *)

\* the working directory lies in a project that the registry, as far as it
\* has been read, holds as indexed
InIndexedProject ==
  LET r == find_project_root(Str(PathStr(cwd)), cwd, fs)
  IN  /\ Truthy(r.v)
      /\ store.kind = "unread" \/ InRegistry(r.v.s, store)

\* tool_input is not a dict, or one of the fields is missing, null or of a
\* wrong type
MissingOrMalformed(fields) ==
  \/ tool_input.t # "dict"
  \/ \E f \in fields : tool_input[f].t \in {"missing", "null", "num"}

\* the field is absent from tool_input, null or the empty string
Absent(field) == ~Truthy(tool_input[field]) /\ tool_input[field].t # "num"

-----------------------------------------------------------------------------
(* C13 *)

\* glob matching of the reference matcher: "*" matches a run of characters
\* and "?" one character, neither of them a separator unless crosses holds
RECURSIVE ReferenceGlob(_, _, _)
ReferenceGlob(name, pat, crosses) ==
  IF pat = <<>> THEN name = <<>>
  ELSE IF pat[1] = "*"
       THEN \E k \in 0..Len(name) :
              /\ crosses \/ \A j \in 1..k : name[j] # "/"
              /\ ReferenceGlob(SubSeq(name, k + 1, Len(name)), Tail(pat), crosses)
       ELSE IF pat[1] = "?"
            THEN /\ name # <<>>
                 /\ crosses \/ name[1] # "/"
                 /\ ReferenceGlob(Tail(name), Tail(pat), crosses)
            ELSE /\ name # <<>> /\ name[1] = pat[1]
                 /\ ReferenceGlob(Tail(name), Tail(pat), crosses)

\* every pattern a list of the model can hold: the built-in ones and the
\* kept lines of the override files
KnownPatterns ==
  { DEFAULT_IGNORE_PATTERNS[i] : i \in 1..Len(DEFAULT_IGNORE_PATTERNS) } \cup
  UNION { UNION { { KeptLines(ig.lines)[i] : i \in 1..Len(KeptLines(ig.lines)) } :
                    ig \in IgnoreFiles(m) } : m \in FileSystems }

\* how the reference matcher reads each pattern: separators normalised, a
\* directory pattern stripped of its trailing separator, a file pattern
\* with its "**" collapsed
ReferenceRules ==
  [ raw_pattern \in KnownPatterns |->
      LET pattern == Replace(raw_pattern, s_backslash, s_slash)
          collapsed == Replace(pattern, s_starstar, s_star)
      IN  [ directory |-> EndsWith(pattern, s_slash),
            stripped |-> RStrip(pattern, {"/"}),
            pattern |-> pattern,
            has_separator |-> Contains(pattern, s_slash),
            recursive |-> Contains(pattern, s_starstar),
            collapsed |-> collapsed,
            collapsed_has_separator |-> Contains(collapsed, s_slash) ] ]

\* the three rules of the reference matcher for one pattern; wildcards
\* cross a separator always, or only when the pattern contains one
ReferenceMatch(candidate, segments, raw_pattern, always) ==
  LET rule == ReferenceRules[raw_pattern]
  IN  IF rule.directory
      THEN \/ \E i \in 1..Len(segments) : segments[i] = rule.stripped
           \/ StartsWith(candidate, rule.stripped \o s_slash)
      ELSE \/ ReferenceGlob(candidate, rule.pattern, always \/ rule.has_separator)
           \/ ReferenceGlob(segments[Len(segments)], rule.pattern,
                            always \/ rule.has_separator)
           \/ /\ rule.recursive
              /\ ReferenceGlob(candidate, rule.collapsed,
                               always \/ rule.collapsed_has_separator)

\* the reference matcher on a pattern list: some pattern matches
ReferenceIgnored(candidate, patterns, always) ==
  LET segments == Split(candidate, "/")
  IN  \E i \in 1..Len(patterns) :
        ReferenceMatch(candidate, segments, patterns[i], always)

\* main() has just made the ignore test of lines 353-354
IgnoreTested ==
  /\ ignore_file.kind # "unread" /\ Truthy(target_path)
  /\ pc = "handle" \/ exit_line = 356

\* the candidate and the pattern list of that test
IgnoreCandidate ==
  Replace(RelativePathStr(target_path.s, project_root.s, cwd), s_backslash, s_slash)

IgnorePatterns == load_ignore_patterns(project_root.s, fs, ignore_file)

\* is_path_ignored gave the answer of the reference matcher: main() left
\* at line 356 exactly when some pattern of the list matches the candidate
MatcherAgrees(always) ==
  LET candidate == IgnoreCandidate
      patterns == IgnorePatterns
  IN  (exit_line = 356) = ReferenceIgnored(candidate, patterns, always)

\* C13 as stated: is_path_ignored equals the three-rule reference matcher
\* in which "*" and "?" do not cross a path separator unless the pattern
\* itself contains one.
C13_MatcherEqualsReference == IgnoreTested => MatcherAgrees(FALSE)

\* C13 as amended: is_path_ignored equals the three-rule matcher in which
\* "*" and "?" match every character, the path separator included, whether
\* or not the pattern contains a separator.
C13_MatcherEqualsCrossingReference == IgnoreTested => MatcherAgrees(TRUE)

\* the target /w/p/src/main.ts has been found ignored, and the call
\* allowed at line 356, by the override pattern s*.ts alone, whose "*"
\* runs across the separator of src/main.ts
C13_Witness ==
  /\ IgnoreTested /\ Done /\ exit_line = 356 /\ Allowed
  /\ IgnoreCandidate = <<"s", "r", "c", "/", "m", "a", "i", "n", ".", "t", "s">>
  /\ \E i \in 1..Len(IgnorePatterns) :
       /\ IgnorePatterns[i] = <<"s", "*", ".", "t", "s">>
       /\ PatternMatches(IgnoreCandidate, IgnorePatterns[i])
       /\ ~ReferenceIgnored(IgnoreCandidate, IgnorePatterns, FALSE)

====
